---- MODULE Spec2Model ----
(***************************************************************************)
(* Model of the product crawler: the page step fetch_and_process_page and  *)
(* its helper check_no_results (src/utils/scraper_utils.py), the record    *)
(* schema (src/models/product.py), the configuration (src/config.py), and  *)
(* the pagination driver and the two filter predicates, whose code is not  *)
(* among the source files and is modelled from spec.md sections 4.1, 4.2   *)
(* and 4.4.                                                                *)
(*                                                                         *)
(* The program is one coroutine.  Its control position is pc; it suspends  *)
(* at the two crawler.arun calls and at the driver's pause.  JSON values   *)
(* are written as tokens: "false" is the JSON literal false and "0" the    *)
(* number zero (equal to False in Python, but not the literal); the other  *)
(* field values are opaque strings.                                        *)
(***************************************************************************)
EXTENDS Integers, Sequences, FiniteSets, TLC

\* ---------------------------------------------------------------- bounds
MaxPages == 3     \* the driver is followed for pages 1..MaxPages
MaxLen == 2       \* records in one page's extracted payload

\* ------------------------------------------------------- configuration
REQUIRED_KEYS == {"name", "regular_price", "sale_price"}

\* The sentinel of check_no_results, as words.
NoResultsFound == <<"No", "Results", "Found">>

\* ----------------------------------------------- what the outside sends
\* The fields of Product, as sets of values the extraction may produce.
Names == {"A", "B"}
RegularPrices == {"10", "20"}
SalePrices == {"5"}
ErrorValues == {"false", "0"}
AllKeys == REQUIRED_KEYS \cup {"error"}

ValuesOf(k) ==
  CASE k = "name" -> Names
    [] k = "regular_price" -> RegularPrices
    [] k = "sale_price" -> SalePrices
    [] k = "error" -> ErrorValues

AllValues == Names \cup RegularPrices \cup SalePrices \cup ErrorValues

\* An extracted block: a mapping from some of the keys to values.
RawProducts ==
  UNION { { f \in [D -> AllValues] : \A k \in D : f[k] \in ValuesOf(k) }
          : D \in SUBSET AllKeys }

EmptyDict == [k \in {} |-> "0"]

\* cleaned_html of the probe, as words.
Htmls == { <<"Products">>,
           <<"No", "Results">>,
           <<"Sorry", "No", "Results", "Found">> }

\* CrawlResult of the probe: success and cleaned_html.
ProbeResults == [success : BOOLEAN, cleaned_html : Htmls]
NoProbe == [success |-> FALSE, cleaned_html |-> <<>>]

\* extracted_content: None, the empty string, text that is not JSON, or
\* the JSON text of a list of n blocks.
Contents ==
  { [kind |-> k, n |-> 0] : k \in {"none", "empty", "malformed"} }
    \cup { [kind |-> "json", n |-> n] : n \in 0..MaxLen }

\* CrawlResult of the extraction fetch: success and extracted_content.
FetchResults == [success : BOOLEAN, extracted_content : Contents]
NoResult == [success |-> FALSE, extracted_content |-> [kind |-> "none", n |-> 0]]

\* ------------------------------------------------------------- helpers
\* Python's `needle in hay` on text, word by word.
Contains(needle, hay) ==
  \E i \in 0..(Len(hay) - Len(needle)) :
    SubSeq(hay, i + 1, i + Len(needle)) = needle

\* dict.pop(key, None)
Pop(d, key) == [k \in (DOMAIN d) \ {key} |-> d[k]]

\* ----------------------------------------------------------- the state
VARIABLES
  pc,                \* position of the coroutine
  page_number,       \* driver: the page counter
  all_products,      \* driver: the accumulated records
  seen_names,        \* driver: the names accepted so far in the run
  probe,             \* check_no_results: result of its fetch
  result,            \* fetch_and_process_page: result of the extraction fetch
  remaining,         \* elements of extracted_data the loop has not reached
  product,           \* the loop variable
  complete_products, \* the page's accepted records
  out,               \* the reports the current page step has printed
  ret,               \* the pair the page step returned
  inflight,          \* fetches issued and not yet answered
  popped,            \* whether the loop body removed `error` from product
  log,               \* calls, fetches and returns, in order
  steps,             \* what each page step returned, in order
  sentinel_pages     \* pages whose probe output held the sentinel

vars == <<pc, page_number, all_products, seen_names, probe, result, remaining,
          product, complete_products, out, ret, inflight, popped, log,
          steps, sentinel_pages>>

NoReturn == [records |-> <<>>, stop |-> FALSE]

Event(ev, kind, page) == [ev |-> ev, kind |-> kind, page |-> page]

Init ==
  /\ pc = "running"
  /\ page_number = 1
  /\ all_products = <<>>
  /\ seen_names = {}
  /\ probe = NoProbe
  /\ result = NoResult
  /\ remaining = 0
  /\ product = EmptyDict
  /\ complete_products = <<>>
  /\ out = <<>>
  /\ ret = NoReturn
  /\ inflight = {}
  /\ popped = FALSE
  /\ log = <<>>
  /\ steps = <<>>
  /\ sentinel_pages = {}


\* ------------------------------------------------- the filter predicates
\* is_complete_product(product, required_keys): every required key is a key.
is_complete_product(p, required_keys) ==
  \A k \in required_keys : k \in DOMAIN p

\* is_duplicate_product(name, seen_names): a lookup.
is_duplicate_product(name, seen) == name \in seen

\* ---------------------------------------------------- check_no_results
\* Variant: the sentinel compared with the whole text (== for in).
check_no_results_Equal(r) ==
  r.success /\ r.cleaned_html = NoResultsFound

\* Variant: a failed probe taken for the end of the listing.
check_no_results_FailStops(r) ==
  ~r.success \/ Contains(NoResultsFound, r.cleaned_html)

\* Its return value, from the result of its fetch.
check_no_results(r) ==
  r.success /\ Contains(NoResultsFound, r.cleaned_html)

\* What it prints.
ProbeOut(r) == IF r.success THEN <<>> ELSE <<"probe_error">>

\* ----------------------------------------------- fetch_and_process_page
Request(kind, page) == [kind |-> kind, page |-> page]

\* Variant: the probe and the extraction fetch started together.
IssuedAtCall_Both(page) == <<Request("probe", page), Request("extract", page)>>

\* The fetches the page step has issued when it first suspends.
IssuedAtCall(page) == <<Request("probe", page)>>

\* Variant: the sentinel page returned as an ordinary empty page.
SentinelReturn_NoStop == [records |-> <<>>, stop |-> FALSE]

\* The pair returned when the sentinel was found.
SentinelReturn == [records |-> <<>>, stop |-> TRUE]

\* bool(extracted_content): None and "" are falsy.
Truthy(content) == content.kind \in {"malformed", "json"}

\* Variant: only the success flag is tested.
FetchFailed_SuccessOnly(r) == ~r.success

\* not (result.success and result.extracted_content)
FetchFailed(r) == ~(r.success /\ Truthy(r.extracted_content))

\* Variant: text that is not JSON read as the empty list.
json_loads_Lenient(content) ==
  [ok |-> TRUE, n |-> IF content.kind = "json" THEN content.n ELSE 0]

\* json.loads(extracted_content): text that is not JSON raises.
json_loads(content) ==
  IF content.kind = "json"
    THEN [ok |-> TRUE, n |-> content.n]
    ELSE [ok |-> FALSE, n |-> 0]

\* Variant: `== False` for `is False`, which the number zero satisfies too.
StripError_Equal(p) ==
  IF "error" \in DOMAIN p /\ p["error"] \in {"false", "0"}
    THEN Pop(p, "error") ELSE p

\* if product.get("error") is False: product.pop("error", None)
StripError(p) ==
  IF "error" \in DOMAIN p /\ p["error"] = "false" THEN Pop(p, "error") ELSE p

\* Variant: only the name is required.
Skipped_NameOnly(p, seen) ==
  \/ ~is_complete_product(p, {"name"})
  \/ is_duplicate_product(p["name"], seen)

\* The two `continue` branches of the loop.
Skipped(p, seen) ==
  \/ ~is_complete_product(p, REQUIRED_KEYS)
  \/ is_duplicate_product(p["name"], seen)

\* Variant: the name is never recorded.
SeenAfter_Forget(p, seen) == seen

\* Variant: the name is recorded before the checks.
SeenAfter_Early(p, seen) ==
  IF "name" \in DOMAIN p THEN seen \cup {p["name"]} ELSE seen

\* seen_names after the loop body has run on p.
SeenAfter(p, seen) ==
  IF Skipped(p, seen) THEN seen ELSE seen \cup {p["name"]}

\* complete_products after the loop body has run on p.
CompleteAfter(p, seen, complete) ==
  IF Skipped(p, seen) THEN complete ELSE Append(complete, p)

\* What the loop body prints.
LoopOut(p, seen) ==
  IF is_complete_product(p, REQUIRED_KEYS) /\ is_duplicate_product(p["name"], seen)
    THEN <<"duplicate">> ELSE <<>>

\* The page step returns r: control is back in the driver's loop.
Return(r, events) ==
  /\ pc' = "returned"
  /\ ret' = r
  /\ steps' = Append(steps, [page |-> page_number, records |-> r.records,
                             stop |-> r.stop])
  /\ log' = Append(events, Event("return", "step", page_number))

\* The driver calls the page step, which builds the url, calls
\* check_no_results and suspends in its fetch.
StartPage ==
  /\ pc = "running"
  /\ page_number <= MaxPages
  /\ pc' = "probe"
  /\ LET issued == IssuedAtCall(page_number) IN
       /\ inflight' = inflight \cup { issued[i] : i \in 1..Len(issued) }
       /\ log' = log \o <<Event("call", "step", page_number)>>
                    \o [i \in 1..Len(issued) |->
                          Event("issue", issued[i].kind, page_number)]
  /\ UNCHANGED <<page_number, all_products, seen_names, probe, result,
                 remaining, product, complete_products, out, ret, popped,
                 steps, sentinel_pages>>

\* The probe's fetch is answered.
ProbeResponds ==
  /\ pc = "probe"
  /\ \E r \in ProbeResults :
       /\ probe' = r
       /\ sentinel_pages' =
            IF r.success /\ Contains(NoResultsFound, r.cleaned_html)
              THEN sentinel_pages \cup {page_number} ELSE sentinel_pages
  /\ pc' = "checked"
  /\ inflight' = inflight \ {Request("probe", page_number)}
  /\ log' = Append(log, Event("done", "probe", page_number))
  /\ UNCHANGED <<page_number, all_products, seen_names, result, remaining,
                 product, complete_products, out, ret, popped, steps>>

\* check_no_results returns; the page step returns the stop signal or
\* issues the extraction fetch and suspends in it.
CheckNoResults ==
  /\ pc = "checked"
  /\ out' = out \o ProbeOut(probe)
  /\ probe' = NoProbe
  /\ IF check_no_results(probe)
       THEN /\ Return(SentinelReturn, log)
            /\ UNCHANGED inflight
       ELSE /\ pc' = "fetch"
            /\ inflight' = inflight \cup {Request("extract", page_number)}
            /\ log' = Append(log, Event("issue", "extract", page_number))
            /\ UNCHANGED <<ret, steps>>
  /\ UNCHANGED <<page_number, all_products, seen_names, result, remaining,
                 product, complete_products, popped, sentinel_pages>>

\* The extraction fetch is answered: the failure check, the parse and the
\* emptiness check, up to the head of the loop.
FetchReturns ==
  /\ pc = "fetch"
  /\ inflight' = inflight \ {Request("extract", page_number)}
  /\ \E r \in FetchResults :
       LET done == Append(log, Event("done", "extract", page_number))
           empty == [records |-> <<>>, stop |-> FALSE]
       IN
       /\ result' = r
       /\ IF FetchFailed(r)
            THEN /\ out' = Append(out, "fetch_error")
                 /\ Return(empty, done)
                 /\ UNCHANGED remaining
            ELSE IF ~json_loads(r.extracted_content).ok
              THEN /\ pc' = "crashed"
                   /\ log' = Append(done, Event("raise", "step", page_number))
                   /\ UNCHANGED <<out, ret, steps, remaining>>
            ELSE IF json_loads(r.extracted_content).n = 0
              THEN /\ out' = Append(out, "no_products")
                   /\ Return(empty, done)
                   /\ UNCHANGED remaining
            ELSE /\ pc' = "loop"
                 /\ remaining' = json_loads(r.extracted_content).n
                 /\ log' = done
                 /\ UNCHANGED <<out, ret, steps>>
  /\ UNCHANGED <<page_number, all_products, seen_names, probe, product,
                 complete_products, popped, sentinel_pages>>

\* for product in extracted_data: the next element.  The elements come
\* from outside and nothing reads one before the loop reaches it, so each
\* is chosen here, among all the blocks the extraction may produce.
NextProduct ==
  /\ pc = "loop"
  /\ remaining > 0
  /\ product' \in RawProducts
  /\ pc' = "iter"
  /\ remaining' = remaining - 1
  /\ UNCHANGED <<page_number, all_products, seen_names, probe, result,
                 complete_products, out, ret, inflight, popped, log, steps,
                 sentinel_pages>>

\* The loop body, first half: the `error` key.  The body runs without
\* suspending; it is taken in two steps so that the record is visible
\* between the removal and the checks.
StripProduct ==
  /\ pc = "iter"
  /\ product' = StripError(product)
  /\ popped' = (DOMAIN product' # DOMAIN product)
  /\ pc' = "filter"
  /\ UNCHANGED <<page_number, all_products, seen_names, probe, result,
                 remaining, complete_products, out, ret, inflight, log, steps,
                 sentinel_pages>>

\* The loop body, second half: the two checks and the acceptance.
FilterProduct ==
  /\ pc = "filter"
  /\ seen_names' = SeenAfter(product, seen_names)
  /\ complete_products' = CompleteAfter(product, seen_names, complete_products)
  /\ out' = out \o LoopOut(product, seen_names)
  /\ product' = EmptyDict
  /\ popped' = FALSE
  /\ pc' = "loop"
  /\ UNCHANGED <<page_number, all_products, probe, result, remaining, ret,
                 inflight, log, steps, sentinel_pages>>

\* After the loop: the page's records, or the empty page.
EndLoop ==
  /\ pc = "loop"
  /\ remaining = 0
  /\ out' = Append(out, IF complete_products = <<>> THEN "no_complete"
                                                   ELSE "extracted")
  /\ Return([records |-> complete_products, stop |-> FALSE], log)
  /\ UNCHANGED <<page_number, all_products, seen_names, probe, result,
                 remaining, product, complete_products, inflight, popped,
                 sentinel_pages>>

\* ------------------------------------------------ the pagination driver
\* One transition of the driver on the pair the page step returned.  The
\* frame of the page step is gone: its locals are cleared.
DriverHandle ==
  /\ pc = "returned"
  /\ IF ret.stop
       THEN /\ pc' = "stopped"
            /\ UNCHANGED <<page_number, all_products>>
       ELSE /\ pc' = "paused"
            /\ all_products' = all_products \o ret.records
            /\ page_number' = page_number + 1
  /\ result' = NoResult
  /\ product' = EmptyDict
  /\ complete_products' = <<>>
  /\ out' = <<>>
  /\ ret' = NoReturn
  /\ UNCHANGED <<seen_names, probe, remaining, inflight, popped, log, steps,
                 sentinel_pages>>

\* The cooperative pause between pages ends.
Resume ==
  /\ pc = "paused"
  /\ pc' = "running"
  /\ UNCHANGED <<page_number, all_products, seen_names, probe, result,
                 remaining, product, complete_products, out, ret, inflight,
                 popped, log, steps, sentinel_pages>>

Next ==
  \/ StartPage
  \/ ProbeResponds
  \/ CheckNoResults
  \/ FetchReturns
  \/ NextProduct
  \/ StripProduct
  \/ FilterProduct
  \/ EndLoop
  \/ DriverHandle
  \/ Resume

Spec == Init /\ [][Next]_vars

\* The coroutine is resumed whenever it can run without the outside: after
\* check_no_results has its answer, and after the page step has returned.
FairSpec == Spec /\ WF_vars(CheckNoResults) /\ WF_vars(DriverHandle)

\* ------------------------------------------------------------ properties
\* The names of a list of complete records.
NamesOf(records) == { records[i]["name"] : i \in 1..Len(records) }

\* Every record accepted so far in the run: the driver's list, then the
\* list of the page in progress.
Accepted == all_products \o complete_products

\* The records of the first n page steps, in order.
RECURSIVE RecordsUpTo(_)
RecordsUpTo(n) ==
  IF n = 0 THEN <<>> ELSE RecordsUpTo(n - 1) \o steps[n].records

\* The fetch named has been answered in the current page step.
Answered(kind) ==
  \E i \in 1..Len(log) : log[i] = Event("done", kind, page_number)

Printed(message) == \E i \in 1..Len(out) : out[i] = message

\* Elements of extracted_data the loop has reached.
Reached == result.extracted_content.n - remaining

\* C1 (state): no two accepted records of a run have the same name.
C1_DistinctNames ==
  \A i, j \in 1..Len(Accepted) :
    i # j => Accepted[i]["name"] # Accepted[j]["name"]

\* C1 (step): a complete record is accepted exactly when no record accepted
\* before it, on this page or an earlier one, has its name, whatever its
\* other fields are.
C1_FirstWins ==
  (pc = "filter" /\ REQUIRED_KEYS \subseteq DOMAIN product) =>
    complete_products' =
      IF product["name"] \in NamesOf(Accepted)
        THEN complete_products
        ELSE Append(complete_products, product)

\* C1: across one run no two accepted records have the same name; the first
\* complete occurrence of a name is accepted and every later one is dropped.
C1_FirstOccurrenceOfANameWins == []C1_DistinctNames /\ [][C1_FirstWins]_vars

\* C1 witness: page 2 held one record, a duplicate of a record accepted on
\* page 1, and returned nothing.
C1_Witness ==
  /\ pc = "returned" /\ page_number = 2
  /\ Len(all_products) = 1
  /\ Reached = 1 /\ Printed("duplicate")
  /\ ret.records = <<>>

\* C5 (state): every accepted record has every required key.
C5_AcceptedComplete ==
  /\ \A i \in 1..Len(Accepted) : REQUIRED_KEYS \subseteq DOMAIN Accepted[i]
  /\ \A i \in 1..Len(ret.records) : REQUIRED_KEYS \subseteq DOMAIN ret.records[i]

\* C5 (step): a record lacking a required key is not appended and its name
\* is not inserted.
C5_IncompleteSkipped ==
  (pc = "filter" /\ ~(REQUIRED_KEYS \subseteq DOMAIN product)) =>
    /\ complete_products' = complete_products
    /\ seen_names' = seen_names

\* C5: every record the page step accepts contains every required key; a
\* record lacking one is skipped and leaves seen_names alone.
C5_OnlyCompleteRecordsAccepted ==
  []C5_AcceptedComplete /\ [][C5_IncompleteSkipped]_vars

\* C5 witness: a page of two records, none a duplicate, returned exactly one.
C5_Witness ==
  /\ pc = "returned"
  /\ Reached = 2
  /\ ~Printed("duplicate")
  /\ Len(ret.records) = 1

\* C6 (step): the loop body removes `error` exactly when its value is the
\* literal false and changes nothing else of the record.
C6_Strip ==
  pc = "iter" =>
    /\ pc' = "filter"
    /\ DOMAIN product' =
         IF "error" \in DOMAIN product /\ product["error"] = "false"
           THEN DOMAIN product \ {"error"}
           ELSE DOMAIN product
    /\ \A k \in DOMAIN product' : product'[k] = product[k]

\* C6 (step): the record is accepted or rejected as the same record without
\* an `error` key would be, and is appended as the first half left it.
C6_Filter ==
  pc = "filter" =>
    LET bare == Pop(product, "error")
        accept == /\ REQUIRED_KEYS \subseteq DOMAIN bare
                  /\ bare["name"] \notin seen_names
    IN complete_products' =
         IF accept THEN Append(complete_products, product)
                   ELSE complete_products

\* C6: `error` is removed before filtering exactly when it is the literal
\* false; any other value stays on the record, which goes through the same
\* checks.
C6_ErrorFalseStripped == [][C6_Strip /\ C6_Filter]_vars

\* C6 witness: a record accepted with its `error` key, and a complete, new
\* record whose `error: false` has just been removed.
C6_Witness ==
  /\ pc = "filter" /\ popped
  /\ REQUIRED_KEYS \subseteq DOMAIN product
  /\ product["name"] \notin seen_names
  /\ \E i \in 1..Len(Accepted) : "error" \in DOMAIN Accepted[i]

\* C7 (state): seen_names is exactly the set of names of the records
\* accepted so far.
C7_SeenIsAccepted == seen_names = NamesOf(Accepted)

\* C7 (step): seen_names never loses a name, and gains one only as the
\* record of that name is accepted.
C7_InsertOnly ==
  /\ seen_names \subseteq seen_names'
  /\ seen_names' # seen_names =>
       /\ pc = "filter"
       /\ seen_names' = seen_names \cup {product["name"]}
       /\ complete_products' = Append(complete_products, product)

\* C7: seen_names starts empty, is insert-only, gains a name only when its
\* record is accepted, and so always equals the names accepted so far.
C7_SeenNamesInsertOnly ==
  seen_names = {} /\ []C7_SeenIsAccepted /\ [][C7_InsertOnly]_vars

\* C7 witness: the run has ended with two names seen.
C7_Witness == pc = "stopped" /\ Cardinality(seen_names) = 2

\* C2 (state): the page steps are those of pages 1, 2, ... in order; once a
\* probe's output holds the sentinel the driver never leaves that page, the
\* step of that page is the last one, it alone signals stop and returns no
\* record, and the records the driver holds are those of the earlier pages.
C2_SentinelEndsRun ==
  /\ \A i \in 1..Len(steps) : steps[i].page = i
  /\ Len(steps) \in {page_number - 1, page_number}
  /\ \A k \in sentinel_pages :
       /\ k = page_number
       /\ pc \in {"checked", "returned", "stopped"}
       /\ \A i \in 1..Len(steps) : steps[i].stop <=> (i = k)
       /\ pc # "checked" =>
            /\ Len(steps) = k
            /\ steps[k].records = <<>>
       /\ all_products = RecordsUpTo(k - 1)
  /\ pc = "stopped" => page_number \in sentinel_pages

\* C2 (step): from the sentinel's probe the page step returns at once and
\* the driver stops at once.
C2_StopsAtOnce ==
  page_number \in sentinel_pages =>
    /\ pc = "checked" => pc' = "returned"
    /\ pc = "returned" => pc' = "stopped" /\ all_products' = all_products

\* C2 (progress): the run whose probe found the sentinel reaches STOPPED.
C2_ReachesStopped == (page_number \in sentinel_pages) ~> (pc = "stopped")

\* C2: if the sentinel appears on page N+1 and on no earlier page, the
\* driver runs the page step for pages 1..N+1 in order, reaches STOPPED
\* after exactly N+1 steps and returns exactly the records of pages 1..N.
C2_StopsAfterSentinelPage ==
  []C2_SentinelEndsRun /\ [][C2_StopsAtOnce]_vars /\ C2_ReachesStopped

\* C2 witness: the sentinel was on page 3; the run stopped after three steps
\* holding a record of page 1 and a record of page 2.
C2_Witness ==
  /\ pc = "stopped" /\ sentinel_pages = {3}
  /\ Len(steps) = 3
  /\ Len(steps[1].records) = 1 /\ Len(steps[2].records) = 1
  /\ Len(all_products) = 2

\* C3 (state): once the extraction fetch of the page has failed, brought no
\* payload or an empty one, or every record was filtered out, the page step
\* has returned ([], false) and seen_names holds nothing of this page.
C3_EmptyPage ==
  LET content == result.extracted_content
      failed == \/ ~result.success
                \/ content.kind \in {"none", "empty"}
                \/ content.kind = "json" /\ content.n = 0
      filtered == /\ result.success /\ content.kind = "json" /\ content.n > 0
                  /\ pc \notin {"loop", "iter", "filter"}
                  /\ complete_products = <<>>
  IN (Answered("extract") /\ (failed \/ filtered)) =>
       /\ pc = "returned"
       /\ ret = [records |-> <<>>, stop |-> FALSE]
       /\ seen_names = NamesOf(all_products)

\* C3 (step): on ([], false) the driver adds no record, advances the page
\* counter by one and keeps running.
C3_DriverContinues ==
  (pc = "returned" /\ ret = [records |-> <<>>, stop |-> FALSE]) =>
    /\ pc' = "paused"
    /\ page_number' = page_number + 1
    /\ all_products' = all_products
    /\ seen_names' = seen_names

\* C3: a failed, empty or wholly filtered page yields ([], false), leaves
\* seen_names as it was, and the driver goes on to the next page.
C3_FailedPageIsSkipped == []C3_EmptyPage /\ [][C3_DriverContinues]_vars

\* C3 witness: the extraction fetch of page 2 reported failure after page 1
\* had brought records, and the page step has returned.
C3_Witness ==
  /\ pc = "returned" /\ page_number = 2
  /\ Answered("extract") /\ ~result.success
  /\ all_products # <<>>

\* C4 (step): on a successful probe whose output contains the sentinel the
\* page step returns ([], true) without issuing a fetch or touching
\* seen_names.
C4_SentinelReturns ==
  (pc = "checked" /\ probe.success
     /\ Contains(NoResultsFound, probe.cleaned_html)) =>
    /\ pc' = "returned"
    /\ ret' = [records |-> <<>>, stop |-> TRUE]
    /\ seen_names' = seen_names
    /\ inflight' = {}
    /\ log' = Append(log, Event("return", "step", page_number))

\* C4 (state): the stop flag never comes with records, and no extraction
\* fetch is ever issued for a page whose probe held the sentinel.
C4_StopMeansEmpty ==
  /\ ret.stop => ret.records = <<>>
  /\ \A i \in 1..Len(steps) : steps[i].stop => steps[i].records = <<>>
  /\ \A k \in sentinel_pages, i \in 1..Len(log) :
       log[i] # Event("issue", "extract", k)

\* C4: a probe that finds the sentinel makes the page step return
\* ([], true) immediately, with no extraction fetch and seen_names unchanged.
C4_SentinelStopsImmediately == []C4_StopMeansEmpty /\ [][C4_SentinelReturns]_vars

\* C4 witness: page 2 returned the stop signal after page 1 brought records.
C4_Witness ==
  /\ pc = "returned" /\ ret.stop /\ page_number = 2
  /\ page_number \in sentinel_pages
  /\ seen_names # {}

\* C8: at most one fetch is in flight; within a page the extraction fetch is
\* issued right after the probe is answered; the probe of a page is issued
\* on the call for that page, and that call follows the return of the page
\* before it.
C8_StrictlySequential ==
  /\ Cardinality(inflight) <= 1
  /\ \A i \in 1..Len(log) :
       LET e == log[i] IN
       /\ (e.ev = "call") =>
            IF i = 1 THEN e.page = 1
            ELSE log[i - 1] = Event("return", "step", e.page - 1)
       /\ (e.ev = "issue" /\ e.kind = "probe") =>
            i > 1 /\ log[i - 1] = Event("call", "step", e.page)
       /\ (e.ev = "issue" /\ e.kind = "extract") =>
            i > 1 /\ log[i - 1] = Event("done", "probe", e.page)
       /\ (e.ev = "done") =>
            i > 1 /\ log[i - 1] = Event("issue", e.kind, e.page)

\* C8 witness: the extraction fetch of page 2 is the one fetch in flight.
C8_Witness ==
  /\ pc = "fetch" /\ page_number = 2
  /\ inflight = {Request("extract", 2)}

\* C9 as stated: after a failed probe the page step returns ([], false).
C9_FailedProbeReturnsEmpty ==
  (pc = "returned" /\ Printed("probe_error")) =>
    ret = [records |-> <<>>, stop |-> FALSE]

\* C9 (step): a failed probe is reported and the page step goes on to the
\* extraction fetch of the same page.
C9_ProbeFailureGoesOn ==
  (pc = "checked" /\ ~probe.success) =>
    /\ pc' = "fetch"
    /\ out' = Append(out, "probe_error")
    /\ inflight' = {Request("extract", page_number)}
    /\ page_number' = page_number

\* C9 (state): a page step whose probe failed never signals stop.
C9_NoStopAfterFailure ==
  Printed("probe_error") => pc # "stopped" /\ ~ret.stop

\* C9, amended: a failed probe is reported and is neither fatal nor a stop
\* signal: the page step goes on to the extraction fetch of the same page,
\* which alone decides what the step returns, with the stop flag false.
C9_FailedProbeIsNotSentinel ==
  []C9_NoStopAfterFailure /\ [][C9_ProbeFailureGoesOn]_vars

\* C9 witness: a page step whose probe failed has returned records.
C9_Witness ==
  /\ pc = "returned" /\ Printed("probe_error")
  /\ ret.records # <<>>

\* C10 (state): when the extraction fetch succeeded with text that is not
\* JSON the run has crashed out of the page step, which returned no pair
\* and put nothing into seen_names; nothing else crashes the run.
C10_MalformedCrashes ==
  LET malformed == /\ Answered("extract") /\ result.success
                   /\ result.extracted_content.kind = "malformed"
  IN /\ malformed =>
          /\ pc = "crashed"
          /\ Len(steps) = page_number - 1
          /\ log[Len(log)] = Event("raise", "step", page_number)
          /\ seen_names = NamesOf(all_products)
     /\ pc = "crashed" => malformed

\* C10 (step): the crash changes neither seen_names nor the records, and
\* nothing follows it.
C10_NoRecovery ==
  /\ pc # "crashed"
  /\ pc' = "crashed" =>
       seen_names' = seen_names /\ all_products' = all_products

\* C10: a non-empty payload that is not parseable raises out of the page
\* step and ends the run, with no retry, before any record is processed.
C10_MalformedPayloadIsFatal == []C10_MalformedCrashes /\ [][C10_NoRecovery]_vars

\* C10 witness: page 2 crashed after page 1 brought records.
C10_Witness ==
  /\ pc = "crashed" /\ page_number = 2
  /\ seen_names # {}

====
